---- MODULE Spec2Model ----
(***************************************************************************)
(* A model of tscinit (src/tscinit.src/main.py): one run of main() over a  *)
(* POSIX file system, and re-runs of it with the same command line.        *)
(*                                                                         *)
(* A path string is a sequence of tokens: the separator "/" or a name      *)
(* token (a run of characters without a separator).  A canonical path is   *)
(* the sequence of the non-empty components the kernel walks.  The        *)
(* components "." and ".." and symbolic links are not modelled.  A file's  *)
(* content is the sequence of chunks written to it.  Besides the errors    *)
(* the file system's layout forces, every call that touches the disk may   *)
(* fail (permission denied, disk full) and leave a partial effect.         *)
(***************************************************************************)
EXTENDS Integers, Sequences, FiniteSets, TLC

\* Longest command-line argument, in tokens.
MaxArgLen == 3
\* Number of invocations of the program with one command line.
MaxRuns == 2

Sep == "/"
\* The tokens an argument is made of.
ArgTokens == {Sep, "a"}
\* The working directories the program is started in (absolute, normalised).
Cwds == {<<Sep>>, <<Sep, "a">>}

VARIABLES
    argv,          \* sys.argv: <<program>> or <<program, argument>>
    cwd,           \* os.getcwd()
    fs,            \* the file system: canonical path -> node
    project_path,  \* main's local
    pc,            \* the statement main() is at
    stdout,        \* what was printed
    trace,         \* the steps this run has performed, in order
    failedAt,      \* the step that raised, "" when none
    fsStart,       \* the file system when this run began
    fsFirst,       \* the file system when the first run began
    run,           \* the number of this invocation
    prevOK         \* the previous invocation completed

vars == <<argv, cwd, fs, project_path, pc, stdout, trace, failedAt, fsStart, fsFirst, run, prevOK>>

-----------------------------------------------------------------------------
(* posixpath *)

\* os.path.isabs
isabs(s) == Len(s) > 0 /\ s[1] = Sep

\* A join that forgets the separator.
joinConcat(a, b) == a \o b

\* os.path.join of two components
join(a, b) ==
    IF isabs(b) THEN b
    ELSE IF a = <<>> \/ a[Len(a)] = Sep THEN a \o b
    ELSE a \o <<Sep>> \o b

\* p.rfind("/") + 1
AfterLastSep(p) ==
    IF \E i \in 1..Len(p) : p[i] = Sep
    THEN (CHOOSE i \in 1..Len(p) : p[i] = Sep /\ \A j \in (i+1)..Len(p) : p[j] # Sep) + 1
    ELSE 1

\* os.path.basename
basename(p) == SubSeq(p, AfterLastSep(p), Len(p))

RECURSIVE SplitFrom(_, _, _, _)
SplitFrom(p, i, cur, acc) ==
    IF i > Len(p) THEN (IF cur = <<>> THEN acc ELSE Append(acc, cur))
    ELSE IF p[i] = Sep
         THEN SplitFrom(p, i + 1, <<>>, IF cur = <<>> THEN acc ELSE Append(acc, cur))
         ELSE SplitFrom(p, i + 1, Append(cur, p[i]), acc)

\* The non-empty components of a path string.
Segments(p) == SplitFrom(p, 1, <<>>, <<>>)

\* The canonical path the kernel resolves a path string to.
Canon(p, wd) == IF isabs(p) THEN Segments(p) ELSE Segments(wd) \o Segments(p)

Prefixes(c) == {SubSeq(c, 1, n) : n \in 0..Len(c)}
IsPrefix(a, c) == Len(a) <= Len(c) /\ SubSeq(c, 1, Len(a)) = a
Parent(c) == SubSeq(c, 1, Len(c) - 1)

-----------------------------------------------------------------------------
(* The file system *)

Dir == [kind |-> "dir", content |-> <<>>]
File(chunks) == [kind |-> "file", content |-> chunks]

IsDir(f, c) == c \in DOMAIN f /\ f[c].kind = "dir"
IsFile(f, c) == c \in DOMAIN f /\ f[c].kind = "file"

\* stat() succeeds: a trailing separator demands a directory.
StatOK(f, p, wd) ==
    LET c == Canon(p, wd)
    IN  /\ c \in DOMAIN f
        /\ (Len(p) > 0 /\ p[Len(p)] = Sep) => f[c].kind = "dir"

\* An existence check that is never satisfied: the directory is always made.
existsNever(f, p, wd) == FALSE

\* os.path.exists
exists(f, p, wd) == StatOK(f, p, wd)

\* A presence check that takes anything at the path for the file.
isfileAnyKind(f, p, wd) == StatOK(f, p, wd)

\* A presence check that looks for a directory.
isfileAsIsdir(f, p, wd) == StatOK(f, p, wd) /\ f[Canon(p, wd)].kind = "dir"

\* os.path.isfile
isfile(f, p, wd) == StatOK(f, p, wd) /\ f[Canon(p, wd)].kind = "file"

\* The directories os.makedirs has to create, outermost first.
Missing(f, c) == {q \in Prefixes(c) : q \notin DOMAIN f}

\* os.makedirs cannot succeed: the path is there already (exist_ok is False),
\* or a component of it is a regular file.
makedirsBlocked(f, p, wd) ==
    \/ Canon(p, wd) \in DOMAIN f
    \/ \E q \in Prefixes(Canon(p, wd)) : IsFile(f, q)

\* The file system with the n outermost missing directories of c created.
WithDirs(f, c, n) ==
    LET new == {q \in Missing(f, c) : Cardinality({r \in Missing(f, c) : Len(r) <= Len(q)}) <= n}
    IN  [q \in DOMAIN f \cup new |-> IF q \in DOMAIN f THEN f[q] ELSE Dir]

\* os.makedirs(p)
makedirs(f, p, wd) == WithDirs(f, Canon(p, wd), Cardinality(Missing(f, Canon(p, wd))))

\* open(p, "w") cannot succeed: no parent directory, or p is a directory.
openBlocked(f, p, wd) ==
    LET c == Canon(p, wd)
    IN  \/ c = <<>>
        \/ ~IsDir(f, Parent(c))
        \/ IsDir(f, c)
        \/ (Len(p) > 0 /\ p[Len(p)] = Sep)

Put(f, c, node) == [q \in DOMAIN f \cup {c} |-> IF q = c THEN node ELSE f[q]]

\* A write that keeps a file that is already there.
writeIfAbsent(f, p, wd, chunks) ==
    IF IsFile(f, Canon(p, wd)) THEN f ELSE Put(f, Canon(p, wd), File(chunks))

\* A write in append mode.
appendTo(f, p, wd, chunks) ==
    LET c == Canon(p, wd)
    IN  Put(f, c, File((IF IsFile(f, c) THEN f[c].content ELSE <<>>) \o chunks))

\* with open(p, "w") as h: h.write(chunk) for each chunk
writeFile(f, p, wd, chunks) == Put(f, Canon(p, wd), File(chunks))

-----------------------------------------------------------------------------
(* The generated documents *)

JsonChunk(doc) == [json |-> doc]
TextChunk(s) == [text |-> s]

\* generate_package_json: package_data
package_data(path) ==
    ("name" :> basename(path))
    @@ ("version" :> "1.0.0")
    @@ ("main" :> "index.js")
    @@ ("scripts" :> (("build" :> "tsc")
                      @@ ("start" :> "node build/index.js")
                      @@ ("build:start" :> "npm run build && npm run start")))
    @@ ("devDependencies" :> ("typescript" :> "latest"))
    @@ ("_moduleAliases" :> ("@" :> "build"))

\* generate_tsconfig_json: tsconfig_data
tsconfig_data ==
    ("compilerOptions" :>
        (("target" :> "ES2020")
         @@ ("module" :> "commonjs")
         @@ ("outDir" :> "./build")
         @@ ("rootDir" :> "./src")
         @@ ("strict" :> TRUE)
         @@ ("esModuleInterop" :> TRUE)
         @@ ("skipLibCheck" :> TRUE)
         @@ ("forceConsistentCasingInFileNames" :> TRUE)
         @@ ("baseUrl" :> ".")
         @@ ("paths" :> (("@/*" :> <<"src/*">>) @@ ("!/*" :> <<"./*">>)))))
    @@ ("include" :> <<"src/**/*.ts">>)
    @@ ("exclude" :> <<"node_modules">>)

\* What json.dump(package_data, f, indent=2) writes.
PackageChunks(path) == <<JsonChunk(package_data(path))>>
\* What json.dump(tsconfig_data, f, indent=2) writes.
TsconfigChunks == <<JsonChunk(tsconfig_data)>>

\* The two f.write calls of index.ts.
IndexChunks ==
    <<TextChunk("import { hello } from \"./module\";\n\n"), TextChunk("hello();\n")>>

\* The three f.write calls of module.ts.
ModuleChunks ==
    <<TextChunk("export function hello() {\n"),
      TextChunk("  console.log(\"Hello from a separate module!\");\n"),
      TextChunk("}\n")>>

\* The paths the functions build.
package_json_path(path) == join(path, <<"package.json">>)
tsconfig_json_path(path) == join(path, <<"tsconfig.json">>)
src_path(path) == join(path, <<"src">>)
index_path(path) == join(src_path(path), <<"index.ts">>)
module_path(path) == join(src_path(path), <<"module.ts">>)

\* A resolution that joins a relative argument to the root.
relativeToRoot(av, wd) ==
    IF Len(av) > 1
    THEN IF isabs(av[2]) THEN av[2] ELSE join(<<Sep>>, av[2])
    ELSE wd

\* main: the project path from the command line.
ResolveTarget(av, wd) ==
    IF Len(av) > 1
    THEN IF isabs(av[2]) THEN av[2] ELSE join(wd, av[2])
    ELSE wd

-----------------------------------------------------------------------------
(* Control flow of main() *)

Order ==
    <<"resolve", "ensure_dir", "print_init", "package_json", "tsconfig_json",
      "src_dir", "index_ts", "module_ts", "report">>

\* The statement that follows a step in the text of main().
Successor(step) ==
    IF step = "report" THEN "done"
    ELSE Order[(CHOOSE i \in 1..Len(Order) : Order[i] = step) + 1]

\* An ensure_src_index_ts that returns once it finds index.ts in place.
AfterEarlyReturn(step) ==
    IF step = "index_ts" /\ isfile(fs, index_path(project_path), cwd) THEN "report"
    ELSE Successor(step)

\* The statement after a step that returned: straight-line code.
After(step) == Successor(step)

\* An error that is caught and ignored.
Swallow(step) == Successor(step)

\* Where control goes when a step raises: nothing catches it.
Propagate(step) == "failed"

Advance(step) ==
    /\ pc' = After(step)
    /\ trace' = Append(trace, step)
    /\ UNCHANGED failedAt

Raise(step) ==
    /\ pc' = Propagate(step)
    /\ failedAt' = step
    /\ UNCHANGED trace

\* What a failing open(p, "w") ... write can leave behind.
WriteErrorOutcomes(f, p, wd, chunks) ==
    IF openBlocked(f, p, wd) THEN {f}
    ELSE {f} \cup {writeFile(f, p, wd, SubSeq(chunks, 1, n)) : n \in 0..(Len(chunks) - 1)}

\* What a failing os.makedirs(p) can leave behind.
MakedirsErrorOutcomes(f, p, wd) ==
    IF makedirsBlocked(f, p, wd) THEN {f}
    ELSE {WithDirs(f, Canon(p, wd), n) : n \in 0..(Cardinality(Missing(f, Canon(p, wd))) - 1)}

-----------------------------------------------------------------------------
(* The states the program is started in *)

Program == <<"main.py">>

\* The command-line arguments: every string of at most MaxArgLen tokens.
Args == UNION {[1..n -> ArgTokens] : n \in 0..MaxArgLen}

Argvs == {<<Program>>} \cup {<<Program, a>> : a \in Args}

\* Content a file can have before the first run.
Empty == <<>>
StalePackage ==
    <<JsonChunk(("name" :> <<"stale">>) @@ ("version" :> "0.0.1") @@ ("private" :> TRUE))>>
StaleTsconfig == <<JsonChunk("compilerOptions" :> ("outDir" :> "./dist"))>>
CustomIndex == <<TextChunk("console.log('mine');\n")>>
CustomModule == <<TextChunk("export const hello = () => {};\n")>>
Other == <<TextChunk("unrelated\n")>>

\* A name no argument and no generated file uses.
Bystander == <<"b">>

\* What is at the target before the first run.
Layouts ==
    {l \in [tgt : {"absent", "blocked", "file", "dir"},
            pkg : {"absent", "empty", "stale", "dir"},
            ts  : {"absent", "stale"},
            src : {"absent", "file", "dir"},
            idx : {"absent", "custom", "dir"},
            mod : {"absent", "custom"}] :
        /\ l.tgt # "dir" => l.pkg = "absent" /\ l.ts = "absent" /\ l.src = "absent"
        /\ l.src # "dir" => l.idx = "absent" /\ l.mod = "absent"}

\* The entries <<canonical path, node>> of the file system a layout describes:
\* the working directory, the target as laid out, and unrelated files beside
\* and inside it.
Entries(wd, T, l) ==
    LET base  == Prefixes(Segments(wd))
        chain == Prefixes(T) \ base
        first == {q \in chain : \A r \in chain : Len(q) <= Len(r)}
        under(names) == T \o names
        node(kind, chunks) == IF kind = "dir" THEN Dir ELSE File(chunks)
    IN  {<<q, Dir>> : q \in base}
        \cup {<<<<Bystander>>, File(Other)>>}
        \cup (IF l.tgt = "blocked" THEN {<<q, File(Other)>> : q \in first} ELSE {})
        \cup (IF l.tgt = "file" THEN {<<q, Dir>> : q \in chain \ {T}} \cup {<<T, File(Other)>>}
              ELSE {})
        \cup (IF l.tgt = "dir" THEN
                {<<q, Dir>> : q \in chain}
                \cup {<<under(<<Bystander>>), File(Other)>>}
                \cup (IF l.pkg = "absent" THEN {} ELSE
                        {<<under(<<<<"package.json">>>>),
                           node(l.pkg, IF l.pkg = "empty" THEN Empty ELSE StalePackage)>>})
                \cup (IF l.ts = "absent" THEN {} ELSE
                        {<<under(<<<<"tsconfig.json">>>>), File(StaleTsconfig)>>})
                \cup (IF l.src = "absent" THEN {} ELSE
                        {<<under(<<<<"src">>>>), node(l.src, Other)>>})
                \cup (IF l.src = "dir" THEN
                        {<<under(<<<<"src">>, Bystander>>), File(Other)>>} ELSE {})
                \cup (IF l.idx = "absent" THEN {} ELSE
                        {<<under(<<<<"src">>, <<"index.ts">>>>), node(l.idx, CustomIndex)>>})
                \cup (IF l.mod = "absent" THEN {} ELSE
                        {<<under(<<<<"src">>, <<"module.ts">>>>), File(CustomModule)>>})
              ELSE {})

\* A layout the working directory and the target allow.
Fits(wd, T, l) ==
    LET base  == Prefixes(Segments(wd))
        chain == Prefixes(T) \ base
    IN  /\ T \in base => l.tgt = "dir"
        /\ l.tgt = "blocked" => Cardinality(chain) >= 2

InitFS(wd, T, l) ==
    LET es == Entries(wd, T, l)
    IN  [q \in {e[1] : e \in es} |-> (CHOOSE e \in es : e[1] = q)[2]]

Init ==
    /\ argv \in Argvs
    /\ cwd \in Cwds
    /\ \E l \in Layouts :
        /\ Fits(cwd, Canon(ResolveTarget(argv, cwd), cwd), l)
        /\ fs = InitFS(cwd, Canon(ResolveTarget(argv, cwd), cwd), l)
    /\ project_path = <<>>
    /\ pc = "resolve"
    /\ stdout = <<>>
    /\ trace = <<>>
    /\ failedAt = ""
    /\ fsStart = fs
    /\ fsFirst = fs
    /\ run = 1
    /\ prevOK = FALSE

-----------------------------------------------------------------------------
(* main(), statement by statement *)

Say(text, path) == [text |-> text, path |-> path]

\* The lines the success report prints.
ReportLines(path) ==
    <<Say("Success! The following files have been created/updated:", <<>>),
      Say("  - ", join(path, <<"package.json">>)),
      Say("  - ", join(path, <<"tsconfig.json">>)),
      Say("  - ", join(path, <<"src/index.ts">>)),
      Say("Next steps:", <<>>)>>

\* main: project_path from sys.argv and os.getcwd()
Resolve ==
    /\ pc = "resolve"
    /\ project_path' = ResolveTarget(argv, cwd)
    /\ Advance("resolve")
    /\ UNCHANGED <<argv, cwd, fs, stdout, fsStart, fsFirst, run, prevOK>>

\* main: if not os.path.exists(project_path): os.makedirs(project_path)
EnsureProjectDir ==
    /\ pc = "ensure_dir"
    /\ \/ /\ exists(fs, project_path, cwd)
          /\ fs' = fs
          /\ Advance("ensure_dir")
       \/ /\ ~exists(fs, project_path, cwd)
          /\ ~makedirsBlocked(fs, project_path, cwd)
          /\ fs' = makedirs(fs, project_path, cwd)
          /\ Advance("ensure_dir")
       \/ /\ ~exists(fs, project_path, cwd)
          /\ fs' \in MakedirsErrorOutcomes(fs, project_path, cwd)
          /\ Raise("ensure_dir")
    /\ UNCHANGED <<argv, cwd, project_path, stdout, fsStart, fsFirst, run, prevOK>>

\* main: print(f"Initializing TypeScript project in: {project_path}")
PrintInitializing ==
    /\ pc = "print_init"
    /\ stdout' = Append(stdout, Say("Initializing TypeScript project in: ", project_path))
    /\ Advance("print_init")
    /\ UNCHANGED <<argv, cwd, fs, project_path, fsStart, fsFirst, run, prevOK>>

\* A step that opens a file for writing and writes chunks to it.
WriteStep(step, p, chunks) ==
    \/ /\ ~openBlocked(fs, p, cwd)
       /\ fs' = writeFile(fs, p, cwd, chunks)
       /\ Advance(step)
    \/ /\ fs' \in WriteErrorOutcomes(fs, p, cwd, chunks)
       /\ Raise(step)

\* generate_package_json(project_path)
GeneratePackageJson ==
    /\ pc = "package_json"
    /\ WriteStep("package_json", package_json_path(project_path), PackageChunks(project_path))
    /\ UNCHANGED <<argv, cwd, project_path, stdout, fsStart, fsFirst, run, prevOK>>

\* generate_tsconfig_json(project_path)
GenerateTsconfigJson ==
    /\ pc = "tsconfig_json"
    /\ WriteStep("tsconfig_json", tsconfig_json_path(project_path), TsconfigChunks)
    /\ UNCHANGED <<argv, cwd, project_path, stdout, fsStart, fsFirst, run, prevOK>>

\* ensure_src_index_ts: if not os.path.exists(src_path): os.makedirs(src_path)
EnsureSrcDir ==
    /\ pc = "src_dir"
    /\ \/ /\ exists(fs, src_path(project_path), cwd)
          /\ fs' = fs
          /\ Advance("src_dir")
       \/ /\ ~exists(fs, src_path(project_path), cwd)
          /\ ~makedirsBlocked(fs, src_path(project_path), cwd)
          /\ fs' = makedirs(fs, src_path(project_path), cwd)
          /\ Advance("src_dir")
       \/ /\ ~exists(fs, src_path(project_path), cwd)
          /\ fs' \in MakedirsErrorOutcomes(fs, src_path(project_path), cwd)
          /\ Raise("src_dir")
    /\ UNCHANGED <<argv, cwd, project_path, stdout, fsStart, fsFirst, run, prevOK>>

\* A step that writes a file only when os.path.isfile says it is not there.
EnsureFileStep(step, p, chunks) ==
    \/ /\ isfile(fs, p, cwd)
       /\ fs' = fs
       /\ Advance(step)
    \/ /\ ~isfile(fs, p, cwd)
       /\ WriteStep(step, p, chunks)

\* ensure_src_index_ts: index.ts
EnsureIndexTs ==
    /\ pc = "index_ts"
    /\ EnsureFileStep("index_ts", index_path(project_path), IndexChunks)
    /\ UNCHANGED <<argv, cwd, project_path, stdout, fsStart, fsFirst, run, prevOK>>

\* ensure_src_index_ts: module.ts
EnsureModuleTs ==
    /\ pc = "module_ts"
    /\ EnsureFileStep("module_ts", module_path(project_path), ModuleChunks)
    /\ UNCHANGED <<argv, cwd, project_path, stdout, fsStart, fsFirst, run, prevOK>>

\* main: the success report and the next steps
Report ==
    /\ pc = "report"
    /\ stdout' = stdout \o ReportLines(project_path)
    /\ Advance("report")
    /\ UNCHANGED <<argv, cwd, fs, project_path, fsStart, fsFirst, run, prevOK>>

\* The program is run again with the same command line in the same directory,
\* after a run that completed.
Rerun ==
    /\ pc = "done"
    /\ run < MaxRuns
    /\ run' = run + 1
    /\ prevOK' = TRUE
    /\ fsStart' = fs
    /\ pc' = "resolve"
    /\ project_path' = <<>>
    /\ stdout' = <<>>
    /\ trace' = <<>>
    /\ failedAt' = ""
    /\ UNCHANGED <<argv, cwd, fs, fsFirst>>

Next ==
    \/ Resolve
    \/ EnsureProjectDir
    \/ PrintInitializing
    \/ GeneratePackageJson
    \/ GenerateTsconfigJson
    \/ EnsureSrcDir
    \/ EnsureIndexTs
    \/ EnsureModuleTs
    \/ Report
    \/ Rerun

Spec == Init /\ [][Next]_vars

-----------------------------------------------------------------------------
(* What the properties speak of *)

\* The target directory the command line names, as a canonical path.
ExpectedTarget ==
    IF Len(argv) = 1 THEN Segments(cwd)
    ELSE IF Len(argv[2]) > 0 /\ argv[2][1] = Sep THEN Segments(argv[2])
    ELSE Segments(cwd) \o Segments(argv[2])

\* The final path segment of the target directory (none for the root).
FinalSegment ==
    IF ExpectedTarget = <<>> THEN <<>> ELSE ExpectedTarget[Len(ExpectedTarget)]

PkgFile == ExpectedTarget \o <<<<"package.json">>>>
TsFile  == ExpectedTarget \o <<<<"tsconfig.json">>>>
SrcDir  == ExpectedTarget \o <<<<"src">>>>
IdxFile == SrcDir \o <<<<"index.ts">>>>
ModFile == SrcDir \o <<<<"module.ts">>>>

\* The paths a run may create or modify.
Footprint == Prefixes(ExpectedTarget) \cup {PkgFile, TsFile, SrcDir, IdxFile, ModFile}

Performed(step) == \E i \in 1..Len(trace) : trace[i] = step

\* The regular files whose content this run created or changed.
Written == {q \in DOMAIN fs : IsFile(fs, q) /\ (q \notin DOMAIN fsStart \/ fs[q] # fsStart[q])}

ReportPrinted ==
    \E i \in 1..Len(stdout) : stdout[i].text = "Success! The following files have been created/updated:"

-----------------------------------------------------------------------------
(* Properties *)

\* C1: after a successful run the name field of <target>/package.json equals
\* the final path segment of the resolved target directory, for every
\* argument (absent, relative, absolute, with a trailing separator, ...).
C1_NameIsFinalSegment ==
    pc = "done" =>
        /\ IsFile(fs, PkgFile)
        /\ fs[PkgFile].content = <<JsonChunk(fs[PkgFile].content[1].json)>>
        /\ fs[PkgFile].content[1].json["name"] = FinalSegment

\* C2: whatever package.json and tsconfig.json held before (nothing, an empty
\* file, other content), after a successful run they hold exactly the
\* generated documents, which do not depend on the prior content.
C2_ManifestAndConfigRewritten ==
    pc = "done" =>
        /\ IsFile(fs, PkgFile)
        /\ fs[PkgFile].content = PackageChunks(project_path)
        /\ IsFile(fs, TsFile)
        /\ fs[TsFile].content = TsconfigChunks

C2_Witness ==
    /\ pc = "done"
    /\ IsFile(fsStart, PkgFile) /\ fsStart[PkgFile].content = StalePackage
    /\ IsFile(fsStart, TsFile) /\ fsStart[TsFile].content = StaleTsconfig
    /\ fs[PkgFile].content = PackageChunks(project_path)
    /\ fs[TsFile].content = TsconfigChunks

\* C3: a src/index.ts (src/module.ts) that is a file before the first run
\* keeps its content through every run and re-run.
C3_StarterSourcesPreserved ==
    \A q \in {IdxFile, ModFile} :
        IsFile(fsFirst, q) => q \in DOMAIN fs /\ fs[q] = fsFirst[q]

C3_Witness ==
    /\ pc = "done"
    /\ run >= 2
    /\ IsFile(fsFirst, IdxFile) /\ fsFirst[IdxFile].content = CustomIndex
    /\ IsFile(fsFirst, ModFile) /\ fsFirst[ModFile].content = CustomModule
    /\ fs[IdxFile].content = CustomIndex
    /\ fs[ModFile].content = CustomModule

\* C4: the resolved target is the working directory when there is no
\* argument, the working directory joined with a relative argument, and an
\* absolute argument unchanged; exactly one case applies; every file the run
\* writes lies under the resolved target.
C4_TargetResolution ==
    LET noArg == Len(argv) = 1
        absArg == Len(argv) > 1 /\ Len(argv[2]) > 0 /\ argv[2][1] = Sep
        relArg == Len(argv) > 1 /\ ~(Len(argv[2]) > 0 /\ argv[2][1] = Sep)
    IN  pc # "resolve" =>
            /\ Cardinality({k \in 1..3 : <<noArg, absArg, relArg>>[k]}) = 1
            /\ noArg => project_path = cwd
            /\ absArg => project_path = argv[2]
            /\ relArg =>
                /\ project_path =
                     (IF cwd[Len(cwd)] = Sep THEN cwd ELSE cwd \o <<Sep>>) \o argv[2]
                /\ Canon(project_path, cwd) = Segments(cwd) \o Segments(argv[2])
            /\ \A q \in Written :
                IsPrefix(Canon(project_path, cwd), q) /\ q # Canon(project_path, cwd)

C4_Witness ==
    /\ pc = "done"
    /\ cwd = <<Sep, "a">>
    /\ argv = <<Program, <<"a", Sep, "a">>>>
    /\ project_path = <<Sep, "a", Sep, "a", Sep, "a">>
    /\ {PkgFile, TsFile, IdxFile, ModFile} \subseteq Written

\* C5: after a run that completes, from any state of the target, <target>
\* and <target>/src are directories and package.json, tsconfig.json,
\* src/index.ts and src/module.ts are files; an index.ts the run created
\* holds the fixed entry text.
C5_SkeletonExists ==
    pc = "done" =>
        /\ IsDir(fs, ExpectedTarget)
        /\ IsDir(fs, SrcDir)
        /\ \A q \in {PkgFile, TsFile, IdxFile, ModFile} : IsFile(fs, q)
        /\ ~IsFile(fsStart, IdxFile) => fs[IdxFile].content = IndexChunks

C5_Witness ==
    /\ pc = "done"
    /\ ExpectedTarget \notin DOMAIN fsStart
    /\ IsDir(fs, ExpectedTarget)
    /\ IsDir(fs, SrcDir)
    /\ \A q \in {PkgFile, TsFile, IdxFile, ModFile} : IsFile(fs, q)
    /\ fs[IdxFile].content = IndexChunks

\* C6: the ensure-directory step, when it returns, has created the target
\* directory and its missing parents if the target path did not exist, and
\* changed nothing if it did; it raises no error when the target path exists.
C6_EnsureDirectory ==
    /\ pc = "print_init" =>
        IF StatOK(fsStart, project_path, cwd)
        THEN fs = fsStart
        ELSE /\ \A q \in Prefixes(ExpectedTarget) : IsDir(fs, q)
             /\ DOMAIN fs = DOMAIN fsStart \cup Prefixes(ExpectedTarget)
             /\ \A q \in DOMAIN fsStart : fs[q] = fsStart[q]
    /\ failedAt = "ensure_dir" => ~StatOK(fsStart, project_path, cwd)

C6_Witness ==
    /\ pc = "print_init"
    /\ ExpectedTarget \notin DOMAIN fsStart
    /\ Parent(ExpectedTarget) \notin DOMAIN fsStart
    /\ IsDir(fs, ExpectedTarget)
    /\ IsDir(fs, Parent(ExpectedTarget))

\* C7: when ensure_src_index_ts returns, each of index.ts and module.ts that
\* was a file before is untouched and each that was not holds its fixed
\* content, whatever the state of the other.
C7_IndependentPresenceChecks ==
    pc \in {"report", "done"} =>
        /\ IsFile(fs, IdxFile)
        /\ fs[IdxFile] = (IF IsFile(fsStart, IdxFile) THEN fsStart[IdxFile] ELSE File(IndexChunks))
        /\ IsFile(fs, ModFile)
        /\ fs[ModFile] = (IF IsFile(fsStart, ModFile) THEN fsStart[ModFile] ELSE File(ModuleChunks))

C7_Witness ==
    /\ pc = "report"
    /\ IsFile(fsStart, IdxFile) /\ fsStart[IdxFile].content = CustomIndex
    /\ ModFile \notin DOMAIN fsStart
    /\ fs[IdxFile].content = CustomIndex
    /\ IsFile(fs, ModFile) /\ fs[ModFile].content = ModuleChunks

\* C8: the steps run in the fixed order; a step that fails ends the run: no
\* later step is performed, the success report is not printed, and what the
\* earlier steps did is still in place.
C8_OrderAndAbort ==
    /\ IsPrefix(trace, Order)
    /\ pc = "done" => trace = Order
    /\ pc \notin {"done", "failed"} => trace = SubSeq(Order, 1, Len(trace)) /\ pc = Order[Len(trace) + 1]
    /\ ReportPrinted => pc = "done"
    /\ pc = "failed" <=> failedAt # ""
    /\ failedAt # "" =>
        /\ IsPrefix(Append(trace, failedAt), Order)
        /\ ~ReportPrinted
        /\ Performed("ensure_dir") /\ ExpectedTarget \notin DOMAIN fsStart =>
              \A q \in Prefixes(ExpectedTarget) : IsDir(fs, q)
        /\ Performed("package_json") => IsFile(fs, PkgFile) /\ fs[PkgFile].content = PackageChunks(project_path)
        /\ Performed("tsconfig_json") => IsFile(fs, TsFile) /\ fs[TsFile].content = TsconfigChunks
        /\ Performed("src_dir") /\ SrcDir \notin DOMAIN fsStart => IsDir(fs, SrcDir)
        /\ Performed("index_ts") => IsFile(fs, IdxFile)

C8_Witness ==
    /\ pc = "failed"
    /\ failedAt = "index_ts"
    /\ trace = SubSeq(Order, 1, 6)
    /\ ExpectedTarget \notin DOMAIN fsStart
    /\ IsDir(fs, SrcDir)
    /\ fs[PkgFile].content = PackageChunks(project_path)
    /\ fs[TsFile].content = TsconfigChunks
    /\ ModFile \notin DOMAIN fs
    /\ ~ReportPrinted

\* C9: a successful run that follows a successful run with the same argument
\* and working directory leaves the file system as it found it.
C9_RunIdempotent ==
    pc = "done" /\ prevOK => fs = fsStart

C9_Witness ==
    /\ pc = "done"
    /\ prevOK
    /\ fs = fsStart
    /\ fs # fsFirst
    /\ IsFile(fsFirst, PkgFile) /\ fsFirst[PkgFile].content = StalePackage

\* C10: a run creates or modifies only the target directory and its missing
\* ancestors, package.json, tsconfig.json, src, src/index.ts and
\* src/module.ts; every other path that was there is unchanged, directories
\* stay directories, and nothing is deleted.
C10_Frame ==
    /\ \A q \in DOMAIN fsStart :
        /\ q \in DOMAIN fs
        /\ q \notin Footprint => fs[q] = fsStart[q]
        /\ IsDir(fsStart, q) => IsDir(fs, q)
    /\ \A q \in DOMAIN fs : q \notin DOMAIN fsStart => q \in Footprint

C10_Witness ==
    /\ pc = "done"
    /\ Len(ExpectedTarget) >= 2
    /\ Footprint \subseteq DOMAIN fs
    /\ ~(Footprint \subseteq DOMAIN fsStart)
    /\ IsFile(fsStart, PkgFile) /\ fs[PkgFile] # fsStart[PkgFile]
    /\ \A q \in {<<Bystander>>, ExpectedTarget \o <<Bystander>>, SrcDir \o <<Bystander>>} :
        IsFile(fsStart, q) /\ fs[q] = fsStart[q]

====
